---- MODULE Spec2Model ----
(***************************************************************************)
(* Model of the go-plugins-template reverse proxy (main.go): the startup   *)
(* composition of the request pipeline (Proxy, LoadMiddlewarePlugin,       *)
(* BasicAuth, Chain) and the handling of requests by the composed handler. *)
(*                                                                         *)
(* Strings are sequences of byte values, so that strings.Split and         *)
(* base64.StdEncoding work on the bytes they work on in the program.       *)
(* A handler is the sequence of stages a request traverses: wrapping a     *)
(* handler h in a middleware m gives <<m>> \o h.                           *)
(***************************************************************************)
EXTENDS Integers, Sequences, FiniteSets, TLC

VARIABLES pc, cfg, terminal, mws, h, reqs, logged, opened, seen, resolved

vars == <<pc, cfg, terminal, mws, h, reqs, logged, opened, seen, resolved>>

----------------------------------------------------------------------------
(* Bounds of the model *)

\* longest decoded credential payload a client sends
MaxPayloadLen == 3

\* longest middleware slot list given to Chain in ChainSpec
MaxSlots == 3

\* longest inbound URL path in ProxySpec
MaxPathLen == 5

\* longest -prefix value in ProxySpec
MaxPrefixLen == 2

\* requests in flight together in ConcSpec
MaxInFlight == 2

\* longest inbound URL path in RouteSpec
MaxRoutePathLen == 3

----------------------------------------------------------------------------
(* Bytes and strings *)

\* " ", the separator of strings.Split(token, " ")
SP == 32

\* ":", the separator of strings.Split(string(authvaluesStr), ":")
COLON == 58

\* http.StatusUnauthorized
StatusUnauthorized == 401

\* the bytes 'u', 'p' and ':' credentials and payloads are made of
Alphabet == {117, 112, COLON}

StringsUpTo(n) == UNION {[1..k -> Alphabet] : k \in 0..n}

\* the absent (nil) middleware, handler or object
NIL == "nil"

\* strings.Split(s, sep) for a one-byte separator: the fields between the
\* occurrences of sep, one more field than there are separators
RECURSIVE SplitFrom(_, _, _, _, _)
SplitFrom(s, sep, k, cur, acc) ==
    IF k > Len(s) THEN Append(acc, cur)
    ELSE IF s[k] = sep THEN SplitFrom(s, sep, k + 1, <<>>, Append(acc, cur))
    ELSE SplitFrom(s, sep, k + 1, Append(cur, s[k]), acc)

Split(s, sep) == SplitFrom(s, sep, 1, <<>>, <<>>)

----------------------------------------------------------------------------
(* base64.StdEncoding *)

\* the character of a 6-bit value in the standard alphabet
B64Char(v) ==
    IF v < 26 THEN 65 + v
    ELSE IF v < 52 THEN 97 + (v - 26)
    ELSE IF v < 62 THEN 48 + (v - 52)
    ELSE IF v = 62 THEN 43 ELSE 47

\* the padding character "="
B64Pad == 61

\* the 6-bit value of a character, -1 for one outside the alphabet
B64Val(c) ==
    IF c \in 65..90 THEN c - 65
    ELSE IF c \in 97..122 THEN c - 71
    ELSE IF c \in 48..57 THEN c + 4
    ELSE IF c = 43 THEN 62
    ELSE IF c = 47 THEN 63
    ELSE -1

\* EncodeToString: three bytes give four characters, a last group of one or
\* two bytes is padded with "="
RECURSIVE EncodeFrom(_, _)
EncodeFrom(b, k) ==
    LET n == Len(b) - k + 1
    IN IF n <= 0 THEN <<>>
       ELSE IF n = 1 THEN
            << B64Char(b[k] \div 4), B64Char((b[k] % 4) * 16), B64Pad, B64Pad >>
       ELSE IF n = 2 THEN
            << B64Char(b[k] \div 4),
               B64Char((b[k] % 4) * 16 + (b[k+1] \div 16)),
               B64Char((b[k+1] % 16) * 4), B64Pad >>
       ELSE << B64Char(b[k] \div 4),
               B64Char((b[k] % 4) * 16 + (b[k+1] \div 16)),
               B64Char((b[k+1] % 16) * 4 + (b[k+2] \div 64)),
               B64Char(b[k+2] % 64) >> \o EncodeFrom(b, k + 3)

Base64Encode(b) == EncodeFrom(b, 1)

\* DecodeString with its error dropped (authvaluesStr, _ := ...): the bytes
\* of the quanta decoded before the first corrupt one. A quantum is four
\* characters; "xx==" gives one byte and "xxx=" two, and end the input.
RECURSIVE DecodeFrom(_, _, _)
DecodeFrom(src, si, out) ==
    LET at(k) == IF si + k <= Len(src) THEN src[si + k] ELSE -1
        d0 == B64Val(at(0))
        d1 == B64Val(at(1))
        d2 == B64Val(at(2))
        d3 == B64Val(at(3))
        b0 == d0 * 4 + (d1 \div 16)
        b1 == (d1 % 16) * 16 + (d2 \div 4)
        b2 == (d2 % 4) * 64 + d3
    IN IF si > Len(src) THEN out
       ELSE IF d0 = -1 \/ d1 = -1 THEN out
       ELSE IF d2 = -1 THEN
            IF at(2) = B64Pad /\ at(3) = B64Pad THEN Append(out, b0) ELSE out
       ELSE IF d3 = -1 THEN
            IF at(3) = B64Pad THEN out \o <<b0, b1>> ELSE out
       ELSE DecodeFrom(src, si + 4, out \o <<b0, b1, b2>>)

\* the token used as it is, not decoded
Base64NotDecoded(src) == src

Base64Decode(src) == DecodeFrom(src, 1, <<>>)

----------------------------------------------------------------------------
(* Configuration and environment *)

\* -basic-user values tried: unset, "u", and ":" (a login holding a colon)
Logins == {<<>>, <<117>>, <<COLON>>}

\* -basic-password values tried: unset, "p", and ":"
Passwords == {<<>>, <<112>>, <<COLON>>}

\* what plugin.Open and Lookup find for a -pre-plugin / -post-plugin path:
\* "none" is the empty path, "ok" a plugin whose Middleware symbol has the
\* type func(http.Handler) http.Handler
PluginFiles == {"none", "ok", "openfail", "nosymbol", "badtype"}

\* what is at ./patches/reverse_proxy.so
PatchFiles == {"absent", "ok", "openfail", "nosymbol", "badtype"}

\* the upstream targets (-url): scheme and host
Targets ==
    { [ scheme |-> "https", host |-> "httpbin.org" ],
      [ scheme |-> "http", host |-> "upstream:8080" ] }

\* the bytes "/", "p" and "g" paths and prefixes are made of
PathAlphabet == {47, 112, 103}

\* the inbound paths: "/" followed by up to n - 1 bytes
PathsUpTo(n) ==
    UNION { { <<47>> \o t : t \in [1..k -> PathAlphabet] } : k \in 0..(n - 1) }

\* the -prefix values: any string of up to n bytes, the empty one too
PrefixesUpTo(n) == UNION {[1..k -> PathAlphabet] : k \in 0..n}

\* the terminal handlers Chain is given: the built-in proxy, the patched
\* proxy, and the README's indexHandler
Terminals == {"proxy", "patchedProxy", "indexHandler"}

\* the middlewares: the loaded pre and post plugins and BasicAuth's closure
Middlewares == {"pre", "auth", "post"}

----------------------------------------------------------------------------
(* Requests *)

\* the scheme token "Basic", and another first token, "X"
BasicScheme == <<66, 97, 115, 105, 99>>

OtherScheme == <<88>>

Payloads == StringsUpTo(MaxPayloadLen)

\* second tokens that are not the encoding of a payload: a character outside
\* the alphabet, an unpadded group, and the encoding of "u:p" followed by a
\* character outside the alphabet
BadTokens ==
    { <<33>>, <<100, 81>>, Base64Encode(<<117, COLON, 112>>) \o <<33>> }

\* the second tokens: the encodings of the payloads that are not empty
\* (the server trims a header value, so no second token is empty), and the
\* tokens that are no encoding
Tokens == {Base64Encode(p) : p \in Payloads \ {<<>>}} \cup BadTokens

\* the values of the Authorization header: none, one token, two tokens,
\* three tokens (also by a doubled space)
Headers ==
    { <<>>, BasicScheme, Base64Encode(<<117, COLON, 112>>) }
    \cup { s \o <<SP>> \o t : s \in {BasicScheme, OtherScheme}, t \in Tokens }
    \cup { BasicScheme \o <<SP, SP>> \o Base64Encode(<<117, COLON, 112>>),
           BasicScheme \o <<SP>> \o Base64Encode(<<117, COLON, 112>>)
               \o <<SP>> \o OtherScheme }

\* the request slot of the model: one request is followed at a time
Slots == {1}

\* the URL of a request the server has read: a path, no scheme and no host,
\* and the Host header the client sent
ListenHost == "localhost:9090"

InboundURL(path) ==
    [ scheme |-> "", host |-> "", path |-> path, reqHost |-> ListenHost ]

IdleRequest ==
    [ st |-> "idle", hdr |-> <<>>, ctx |-> {}, sentUser |-> {},
      fwdUser |-> {}, rest |-> <<>>,
      trace |-> <<>>, outcome |-> "pending", code |-> 0, challenge |-> FALSE,
      by |-> NIL, path |-> <<>>, url |-> InboundURL(<<>>) ]

\* a request without a Username header
NoUsername == { {} }

\* the Username header a client may send: none, "p" or "u"
ClientUsernames == { {}, {<<112>>}, {<<117>>} }

\* no routing decision remembered
NoRoute == [ path |-> <<>>, url |-> InboundURL(<<>>), known |-> FALSE ]

\* r.Context().Value("Username"): the set of values under the key
ContextValue(ctx, key) == { kv[2] : kv \in { x \in ctx : x[1] = key } }

----------------------------------------------------------------------------
(* Chain *)

\* the loop of Chain from index i down to 1: a slot that is not nil wraps
\* the handler built so far, a nil slot is skipped
RECURSIVE ChainLoop(_, _, _)
ChainLoop(hd, ms, i) ==
    IF i < 1 THEN hd
    ELSE ChainLoop(IF ms[i] # NIL THEN <<ms[i]>> \o hd ELSE hd, ms, i - 1)

\* Chain with the loop condition i > 0 written i > 1: the first slot is
\* never applied
RECURSIVE ChainLoopFromSecond(_, _, _)
ChainLoopFromSecond(hd, ms, i) ==
    IF i <= 1 THEN hd
    ELSE ChainLoopFromSecond(IF ms[i] # NIL THEN <<ms[i]>> \o hd ELSE hd,
                             ms, i - 1)

ChainSkipsFirst(hd, ms) == ChainLoopFromSecond(hd, ms, Len(ms))

\* Chain with the loop running forward: the last slot becomes the outermost
RECURSIVE ChainLoopForward(_, _, _)
ChainLoopForward(hd, ms, i) ==
    IF i > Len(ms) THEN hd
    ELSE ChainLoopForward(IF ms[i] # NIL THEN <<ms[i]>> \o hd ELSE hd,
                          ms, i + 1)

ChainForward(hd, ms) == ChainLoopForward(hd, ms, 1)

\* Chain without the nil check: a nil slot wraps the handler too
RECURSIVE ChainLoopNoNilCheck(_, _, _)
ChainLoopNoNilCheck(hd, ms, i) ==
    IF i < 1 THEN hd
    ELSE ChainLoopNoNilCheck(<<ms[i]>> \o hd, ms, i - 1)

ChainNoNilCheck(hd, ms) == ChainLoopNoNilCheck(hd, ms, Len(ms))

\* Chain(h, mws...): the handler; its first stage is the outermost
Chain(hd, ms) == ChainLoop(hd, ms, Len(ms))

----------------------------------------------------------------------------
(* BasicAuth *)

\* BasicAuth with || written &&: nil only when both are empty
BasicAuthBothEmpty(login, password) ==
    IF login = <<>> /\ password = <<>> THEN NIL ELSE "auth"

\* BasicAuth returns nil when the login or the password is empty
BasicAuth(login, password) ==
    IF login = <<>> \/ password = <<>> THEN NIL ELSE "auth"

\* the length check written len(bits) < 2
HeaderTooShort(bits) == Len(bits) < 2

\* len(bits) != 2
HeaderMalformed(bits) == Len(bits) # 2

\* authValues[0] != login && authValues[1] != password: the right operand is
\* evaluated only when the left one holds, and indexing authValues[1] of a
\* one-element slice panics
ComparePanics(authValues, login) ==
    authValues[1] # login /\ Len(authValues) < 2

\* the comparison with || in place of &&
CredentialsRejectedEither(authValues, login, password) ==
    authValues[1] # login \/ (Len(authValues) >= 2 /\ authValues[2] # password)

CredentialsRejected(authValues, login, password) ==
    authValues[1] # login /\ authValues[2] # password

\* a publication of the username the request supplied
PublishedSupplied(authValues, login) == authValues[1]

\* context.WithValue(r.Context(), "Username", login)
PublishedIdentity(authValues, login) == login

\* what the handler BasicAuth's middleware returns does with a header:
\* "malformed" (401 with the challenge header), "panic" (the index out of
\* range, the server aborts the request), "mismatch" (401), "accept"
AuthVerdict(token, login, password) ==
    LET bits == Split(token, SP)
    IN IF HeaderMalformed(bits) THEN "malformed"
       ELSE LET authValues == Split(Base64Decode(bits[2]), COLON)
            IN IF ComparePanics(authValues, login) THEN "panic"
               ELSE IF CredentialsRejected(authValues, login, password)
                    THEN "mismatch"
               ELSE "accept"

----------------------------------------------------------------------------
(* Loading plugins and patches *)

\* LoadPlugin: the symbol ("sym") or the error ("err") of plugin.Open and
\* Lookup; a symbol of another type is still a symbol, and no file at the
\* path is an error of plugin.Open
LoadPlugin(file) ==
    IF file \in {"openfail", "nosymbol", "absent", "none"}
    THEN "err" ELSE "sym"

\* a LoadPatch that does not look for the file first
LoadPatchNoStat(file) == LoadPlugin(file)

\* LoadPatch: nil without an error when os.Stat finds no file, LoadPlugin's
\* result otherwise
LoadPatch(file) ==
    IF file = "absent" THEN NIL ELSE LoadPlugin(file)

\* a LoadMiddlewarePlugin that gives nil for whatever does not load
LoadMiddlewarePluginLenient(file, name) ==
    IF file = "ok" THEN name ELSE NIL

\* LoadMiddlewarePlugin: nil for the empty path, "fatal" (log.Fatal) when
\* the plugin does not load or its symbol has another type
LoadMiddlewarePlugin(file, name) ==
    IF file = "none" THEN NIL
    ELSE IF LoadPlugin(file) = "err" THEN "fatal"
    ELSE IF file = "ok" THEN name
    ELSE "fatal"

\* a Proxy that builds the built-in proxy for a patch of another type
ProxyFallsBack(file) ==
    IF file = "ok" THEN "patchedProxy" ELSE "proxy"

\* a Proxy for which an error of LoadPatch is fatal
ProxyStrict(file) ==
    LET obj == LoadPatch(file)
    IN IF obj = "err" THEN "fatal"
       ELSE IF obj = "sym"
       THEN (IF file = "ok" THEN "patchedProxy" ELSE "fatal")
       ELSE "proxy"

\* Proxy: the patch's handler when the patch loads and has the type,
\* "fatal" when it loads with another type, the built-in proxy otherwise
\* (no patch file, or an error, which is logged)
Proxy(file) ==
    LET obj == LoadPatch(file)
    IN IF obj = "sym"
       THEN (IF file = "ok" THEN "patchedProxy" ELSE "fatal")
       ELSE "proxy"

\* the plugin.Open calls of LoadPatch: none when os.Stat finds no file
PatchOpens(file) ==
    IF file = "absent" THEN <<>> ELSE <<"reverse_proxy">>

\* the plugin.Open calls of LoadMiddlewarePlugin: none for the empty path
PluginOpens(file, name) ==
    IF file = "none" THEN <<>> ELSE <<name>>

\* what Proxy logs: LoadPatch's error (log.Println(err)), the notice that a
\* patch was found, and the message of log.Fatal for a patch of another type
ProxyLogs(file) ==
    LET obj == LoadPatch(file)
    IN (IF obj = "err" THEN <<"patch error">> ELSE <<>>)
       \o (IF obj = "sym"
           THEN <<"Loading patched reverse_proxy module">> ELSE <<>>)
       \o (IF obj = "sym" /\ file # "ok"
           THEN <<"Function signature do not match">> ELSE <<>>)

\* the message of log.Fatal in LoadMiddlewarePlugin
PluginLogs(file) ==
    IF file = "none" \/ file = "ok" THEN <<>>
    ELSE IF LoadPlugin(file) = "err" THEN <<"Can't load plugin">>
    ELSE <<"'Middleware' function should have another type">>

----------------------------------------------------------------------------
(* The reverse proxy's Director *)

\* strings.HasPrefix
HasPrefix(str, prefix) ==
    Len(str) >= Len(prefix) /\ SubSeq(str, 1, Len(prefix)) = prefix

\* a trim that removes nothing
TrimNothing(str, prefix) == str

\* a trim that goes on while the string begins with the prefix
RECURSIVE TrimEveryPrefix(_, _)
TrimEveryPrefix(str, prefix) ==
    IF prefix # <<>> /\ HasPrefix(str, prefix)
    THEN TrimEveryPrefix(SubSeq(str, Len(prefix) + 1, Len(str)), prefix)
    ELSE str

\* strings.TrimPrefix: str without the leading prefix, str itself when it
\* does not begin with it
TrimPrefix(str, prefix) ==
    IF HasPrefix(str, prefix)
    THEN SubSeq(str, Len(prefix) + 1, Len(str)) ELSE str

\* the Director of patches/reverse_proxy.go: scheme, host and Host
\* header are the target's and the prefix is trimmed off the path
PatchedDirector(target, prefix, url) ==
    [ url EXCEPT !.scheme = target.scheme, !.host = target.host,
                 !.path = TrimPrefix(url.path, prefix),
                 !.reqHost = target.host ]

\* a built-in Director that heeds the prefix
DefaultDirectorTrims(target, prefix, url) ==
    [ url EXCEPT !.scheme = target.scheme, !.host = target.host,
                 !.path = TrimPrefix(url.path, prefix),
                 !.reqHost = target.host ]

\* the Director of the built-in Proxy: scheme, host and Host header are the
\* target's, the path is left as it came
DefaultDirector(target, prefix, url) ==
    [ url EXCEPT !.scheme = target.scheme, !.host = target.host,
                 !.reqHost = target.host ]

\* a Director that trims the prefix until a first request was forwarded
DirectorPatchedOnce(term, target, prefix, url) ==
    IF term = "patchedProxy" /\ ~ seen.known
    THEN PatchedDirector(target, prefix, url)
    ELSE DefaultDirector(target, prefix, url)

\* the URL the terminal handler sends upstream
Director(term, target, prefix, url) ==
    IF term = "proxy" THEN DefaultDirector(target, prefix, url)
    ELSE IF term = "patchedProxy" THEN PatchedDirector(target, prefix, url)
    ELSE url

----------------------------------------------------------------------------
(* Startup: main evaluates Chain's arguments from left to right *)

\* the -prefix, the -url and the inbound path followed in Spec
SpecPrefixes == { <<47, 112>> }

SpecTargets == { [ scheme |-> "https", host |-> "httpbin.org" ] }

SpecPaths == { <<47, 112, 47, 103>> }

Init ==
    /\ pc = "proxy"
    /\ cfg \in [ login : Logins, password : Passwords,
                 prePlugin : PluginFiles, postPlugin : PluginFiles,
                 patch : PatchFiles, prefix : SpecPrefixes,
                 target : SpecTargets ]
    /\ terminal = NIL
    /\ mws = <<>>
    /\ h = <<>>
    /\ reqs = [r \in Slots |-> IdleRequest]
    /\ logged = <<>>
    /\ opened = <<>>
    /\ seen = NoRoute
    /\ resolved = <<>>

\* Proxy(rpURL, *prefix)
BuildProxy ==
    /\ pc = "proxy"
    /\ LET t == Proxy(cfg.patch)
       IN IF t = "fatal"
          THEN pc' = "fatal" /\ UNCHANGED terminal
          ELSE pc' = "pre" /\ terminal' = t
    /\ logged' = logged \o ProxyLogs(cfg.patch)
    /\ opened' = opened \o PatchOpens(cfg.patch)
    /\ resolved' = Append(resolved, "reverse_proxy")
    /\ UNCHANGED <<cfg, mws, h, reqs, seen>>

\* LoadMiddlewarePlugin(*prePlugin)
LoadPre ==
    /\ pc = "pre"
    /\ LET m == LoadMiddlewarePlugin(cfg.prePlugin, "pre")
       IN IF m = "fatal"
          THEN pc' = "fatal" /\ UNCHANGED mws
          ELSE pc' = "auth" /\ mws' = Append(mws, m)
    /\ logged' = logged \o PluginLogs(cfg.prePlugin)
    /\ opened' = opened \o PluginOpens(cfg.prePlugin, "pre")
    /\ resolved' = resolved \o PluginOpens(cfg.prePlugin, "pre")
    /\ UNCHANGED <<cfg, terminal, h, reqs, seen>>

\* BasicAuth(*basicUser, *basicPassword)
BuildAuth ==
    /\ pc = "auth"
    /\ mws' = Append(mws, BasicAuth(cfg.login, cfg.password))
    /\ pc' = "post"
    /\ UNCHANGED <<cfg, terminal, h, reqs, logged, opened, seen, resolved>>

\* LoadMiddlewarePlugin(*postPlugin)
LoadPost ==
    /\ pc = "post"
    /\ LET m == LoadMiddlewarePlugin(cfg.postPlugin, "post")
       IN IF m = "fatal"
          THEN pc' = "fatal" /\ UNCHANGED mws
          ELSE pc' = "chain" /\ mws' = Append(mws, m)
    /\ logged' = logged \o PluginLogs(cfg.postPlugin)
    /\ opened' = opened \o PluginOpens(cfg.postPlugin, "post")
    /\ resolved' = resolved \o PluginOpens(cfg.postPlugin, "post")
    /\ UNCHANGED <<cfg, terminal, h, reqs, seen>>

\* http.Handle("/", Chain(...))
ComposeChain ==
    /\ pc = "chain"
    /\ h' = Chain(<<terminal>>, mws)
    /\ pc' = "listen"
    /\ UNCHANGED <<cfg, terminal, mws, reqs, logged, opened, seen, resolved>>

\* http.ListenAndServe(*port, nil)
ListenAndServe ==
    /\ pc = "listen"
    /\ pc' = "serving"
    /\ UNCHANGED <<cfg, terminal, mws, h, reqs, logged, opened, seen, resolved>>

----------------------------------------------------------------------------
(* Serving a request: the stages of the handler, outermost first *)

\* the server hands a request with Authorization header hdr, URL path path
\* and the values user of a Username header to the handler
Receive(r, headers, paths, users) ==
    /\ pc = "serving"
    /\ reqs[r].st = "idle"
    /\ \E hdr \in headers, path \in paths, user \in users :
         reqs' = [reqs EXCEPT ![r] =
                    [IdleRequest EXCEPT !.st = "running", !.hdr = hdr,
                                        !.sentUser = user, !.fwdUser = user,
                                        !.rest = h, !.path = path,
                                        !.url = InboundURL(path)]]
    /\ UNCHANGED <<pc, cfg, terminal, mws, h, logged, opened, seen, resolved>>

\* the stage about to serve request r
AtStage(r, stages) ==
    /\ pc = "serving"
    /\ reqs[r].st = "running"
    /\ reqs[r].rest # <<>>
    /\ Head(reqs[r].rest) \in stages

\* the stage is entered with the context the request carries
Entered(q) == Append(q.trace, [stage |-> Head(q.rest), ctx |-> q.ctx])

\* the header the post plugin sets: Username, when the context holds one
PostHeader(q) ==
    IF Head(q.rest) = "post" /\ ContextValue(q.ctx, "Username") # {}
    THEN ContextValue(q.ctx, "Username") ELSE q.fwdUser

\* a plugin's handler calls h.ServeHTTP(w, r), as the example plugins do
PluginDelegates(r) ==
    /\ AtStage(r, {"pre", "post"})
    /\ reqs' = [reqs EXCEPT ![r] =
                  [reqs[r] EXCEPT !.trace = Entered(reqs[r]),
                                  !.fwdUser = PostHeader(reqs[r]),
                                  !.rest = Tail(reqs[r].rest)]]
    /\ UNCHANGED <<pc, cfg, terminal, mws, h, logged, opened, seen, resolved>>

\* a plugin's handler answers the request itself and calls no handler
PluginResponds(r) ==
    /\ AtStage(r, {"pre", "post"})
    /\ reqs' = [reqs EXCEPT ![r] =
                  [reqs[r] EXCEPT !.trace = Entered(reqs[r]),
                                  !.st = "done", !.outcome = "responded",
                                  !.by = Head(reqs[r].rest)]]
    /\ UNCHANGED <<pc, cfg, terminal, mws, h, logged, opened, seen, resolved>>

\* request q after the handler of BasicAuth's middleware has served it
AuthOutcome(q) ==
    LET verdict == AuthVerdict(q.hdr, cfg.login, cfg.password)
        authValues == Split(Base64Decode(Split(q.hdr, SP)[2]), COLON)
        entered == [q EXCEPT !.trace = Entered(q)]
    IN CASE verdict = "malformed" ->
              [entered EXCEPT !.st = "done", !.outcome = "responded",
                              !.code = StatusUnauthorized,
                              !.challenge = TRUE, !.by = "auth"]
         [] verdict = "panic" ->
              [entered EXCEPT !.st = "done", !.outcome = "aborted",
                              !.by = "auth"]
         [] verdict = "mismatch" ->
              [entered EXCEPT !.st = "done", !.outcome = "responded",
                              !.code = StatusUnauthorized, !.by = "auth"]
         [] OTHER ->
              [entered EXCEPT
                 !.ctx = { x \in q.ctx : x[1] # "Username" } \cup
                         { <<"Username",
                             PublishedIdentity(authValues, cfg.login)>> },
                 !.rest = Tail(q.rest)]

\* a handler that keeps the identity in one context for all requests: what
\* it publishes for one request shows in every request in flight
AuthServeShared(r) ==
    /\ AtStage(r, {"auth"})
    /\ LET served == AuthOutcome(reqs[r])
       IN reqs' = [x \in DOMAIN reqs |->
                    IF x = r THEN served
                    ELSE IF reqs[x].st = "running"
                    THEN [reqs[x] EXCEPT !.ctx = reqs[x].ctx \cup served.ctx]
                    ELSE reqs[x]]
    /\ UNCHANGED <<pc, cfg, terminal, mws, h, logged, opened, seen, resolved>>

\* the handler of BasicAuth's middleware: the context it publishes in is
\* that of the request it serves
AuthServe(r) ==
    /\ AtStage(r, {"auth"})
    /\ reqs' = [reqs EXCEPT ![r] = AuthOutcome(reqs[r])]
    /\ UNCHANGED <<pc, cfg, terminal, mws, h, logged, opened, seen, resolved>>

\* a terminal handler that calls LoadPatch again for the request it forwards
TerminalServeResolves(r) ==
    /\ AtStage(r, Terminals)
    /\ LET q == reqs[r]
           url == Director(Head(q.rest), cfg.target, cfg.prefix, q.url)
       IN reqs' = [reqs EXCEPT ![r] =
                     [q EXCEPT !.trace = Entered(q),
                               !.st = "done", !.outcome = "forwarded",
                               !.by = Head(q.rest),
                               !.url = url,
                               !.rest = Tail(q.rest)]]
    /\ resolved' = Append(resolved, "reverse_proxy")
    /\ UNCHANGED <<pc, cfg, terminal, mws, h, logged, opened, seen>>

\* the terminal handler forwards the request upstream
TerminalServe(r) ==
    /\ AtStage(r, Terminals)
    /\ LET q == reqs[r]
           url == Director(Head(q.rest), cfg.target, cfg.prefix, q.url)
       IN /\ reqs' = [reqs EXCEPT ![r] =
                        [q EXCEPT !.trace = Entered(q),
                                  !.st = "done", !.outcome = "forwarded",
                                  !.by = Head(q.rest),
                                  !.url = url,
                                  !.rest = Tail(q.rest)]]
    /\ UNCHANGED <<pc, cfg, terminal, mws, h, logged, opened, seen, resolved>>

\* the first request that was forwarded and is over: its path and the URL
\* that was sent upstream for it
Remembered(q) ==
    IF seen.known \/ q.outcome # "forwarded" THEN seen
    ELSE [ path |-> q.path, url |-> q.url, known |-> TRUE ]

\* the request is over: its response, context and headers are discarded
Complete(r) ==
    /\ pc = "serving"
    /\ reqs[r].st = "done"
    /\ reqs' = [reqs EXCEPT ![r] = IdleRequest]
    /\ seen' = Remembered(reqs[r])
    /\ UNCHANGED <<pc, cfg, terminal, mws, h, logged, opened, resolved>>

Next ==
    \/ BuildProxy
    \/ LoadPre
    \/ BuildAuth
    \/ LoadPost
    \/ ComposeChain
    \/ ListenAndServe
    \/ \E r \in Slots : Receive(r, Headers, SpecPaths, NoUsername)
    \/ \E r \in Slots : PluginDelegates(r)
    \/ \E r \in Slots : PluginResponds(r)
    \/ \E r \in Slots : AuthServe(r)
    \/ \E r \in Slots : TerminalServe(r)
    \/ \E r \in Slots : Complete(r)

Spec == Init /\ [][Next]_vars

----------------------------------------------------------------------------
(* Chain on any slot list: ChainSpec *)

\* the slot lists Chain is given: up to MaxSlots slots, each nil or a
\* middleware, in any order
SlotLists == UNION {[1..k -> Middlewares \cup {NIL}] : k \in 0..MaxSlots}

\* the headers tried in ChainSpec: none, "Basic " with the encoding of
\* "u:p", and with the encoding of "p:u"
ChainHeaders ==
    { <<>>, BasicScheme \o <<SP>> \o Base64Encode(<<117, COLON, 112>>),
      BasicScheme \o <<SP>> \o Base64Encode(<<112, COLON, 117>>) }

ChainInit ==
    /\ pc = "chain"
    /\ cfg = [ login |-> <<117>>, password |-> <<112>>, prePlugin |-> "ok",
               postPlugin |-> "ok", patch |-> "absent",
               prefix |-> <<47, 112>>,
               target |-> [ scheme |-> "https", host |-> "httpbin.org" ] ]
    /\ terminal \in {"proxy", "indexHandler"}
    /\ mws \in SlotLists
    /\ h = <<>>
    /\ reqs = [r \in Slots |-> IdleRequest]
    /\ logged = <<>>
    /\ opened = <<>>
    /\ seen = NoRoute
    /\ resolved = <<>>

ChainNext ==
    \/ ComposeChain
    \/ ListenAndServe
    \/ \E r \in Slots : Receive(r, ChainHeaders, SpecPaths, NoUsername)
    \/ \E r \in Slots : PluginDelegates(r)
    \/ \E r \in Slots : PluginResponds(r)
    \/ \E r \in Slots : AuthServe(r)
    \/ \E r \in Slots : TerminalServe(r)
    \/ \E r \in Slots : Complete(r)

ChainSpec == ChainInit /\ [][ChainNext]_vars

----------------------------------------------------------------------------
(* The proxy on any prefix and path: ProxySpec *)

\* no plugins and no credentials, any patch file, any prefix and target
ProxyInit ==
    /\ pc = "proxy"
    /\ cfg \in [ login : {<<>>}, password : {<<>>},
                 prePlugin : {"none"}, postPlugin : {"none"},
                 patch : PatchFiles, prefix : PrefixesUpTo(MaxPrefixLen),
                 target : Targets ]
    /\ terminal = NIL
    /\ mws = <<>>
    /\ h = <<>>
    /\ reqs = [r \in Slots |-> IdleRequest]
    /\ logged = <<>>
    /\ opened = <<>>
    /\ seen = NoRoute
    /\ resolved = <<>>

ProxyNext ==
    \/ BuildProxy
    \/ LoadPre
    \/ BuildAuth
    \/ LoadPost
    \/ ComposeChain
    \/ ListenAndServe
    \/ \E r \in Slots : Receive(r, {<<>>}, PathsUpTo(MaxPathLen), NoUsername)
    \/ \E r \in Slots : TerminalServe(r)

ProxySpec == ProxyInit /\ [][ProxyNext]_vars

----------------------------------------------------------------------------
(* Sequences of requests through one pipeline: RouteSpec *)

\* with and without credentials, pre plugin and patch; one request after
\* another on any of the paths, with any of the headers of ChainHeaders
RouteInit ==
    /\ pc = "proxy"
    /\ cfg \in [ login : {<<>>, <<117>>}, password : {<<112>>},
                 prePlugin : {"none", "ok"}, postPlugin : {"none"},
                 patch : {"absent", "ok"}, prefix : SpecPrefixes,
                 target : Targets ]
    /\ terminal = NIL
    /\ mws = <<>>
    /\ h = <<>>
    /\ reqs = [r \in Slots |-> IdleRequest]
    /\ logged = <<>>
    /\ opened = <<>>
    /\ seen = NoRoute
    /\ resolved = <<>>

RouteNext ==
    \/ BuildProxy
    \/ LoadPre
    \/ BuildAuth
    \/ LoadPost
    \/ ComposeChain
    \/ ListenAndServe
    \/ \E r \in Slots : Receive(r, ChainHeaders, PathsUpTo(MaxRoutePathLen), NoUsername)
    \/ \E r \in Slots : PluginDelegates(r)
    \/ \E r \in Slots : PluginResponds(r)
    \/ \E r \in Slots : AuthServe(r)
    \/ \E r \in Slots : TerminalServe(r)
    \/ \E r \in Slots : Complete(r)

RouteSpec == RouteInit /\ [][RouteNext]_vars

----------------------------------------------------------------------------
(* Requests in flight together: ConcSpec *)

\* the requests the server handles at a time, each in its own goroutine
ConcSlots == 1..MaxInFlight

\* both plugins, with and without credentials, no patch
ConcInit ==
    /\ pc = "proxy"
    /\ cfg \in [ login : {<<>>, <<117>>}, password : {<<112>>},
                 prePlugin : {"ok"}, postPlugin : {"ok"},
                 patch : {"absent"}, prefix : SpecPrefixes,
                 target : SpecTargets ]
    /\ terminal = NIL
    /\ mws = <<>>
    /\ h = <<>>
    /\ reqs = [r \in ConcSlots |-> IdleRequest]
    /\ logged = <<>>
    /\ opened = <<>>
    /\ seen = NoRoute
    /\ resolved = <<>>

ConcNext ==
    \/ BuildProxy
    \/ LoadPre
    \/ BuildAuth
    \/ LoadPost
    \/ ComposeChain
    \/ ListenAndServe
    \/ \E r \in ConcSlots : Receive(r, ChainHeaders, SpecPaths, NoUsername)
    \/ \E r \in ConcSlots : PluginDelegates(r)
    \/ \E r \in ConcSlots : PluginResponds(r)
    \/ \E r \in ConcSlots : AuthServe(r)
    \/ \E r \in ConcSlots : TerminalServe(r)
    \/ \E r \in ConcSlots : Complete(r)

ConcSpec == ConcInit /\ [][ConcNext]_vars

----------------------------------------------------------------------------
(* Requests that bring a Username header: IdentitySpec *)

\* credentials "u" and "p", with and without the post plugin, no patch; the
\* requests carry any Authorization header and any of ClientUsernames
IdentityInit ==
    /\ pc = "proxy"
    /\ cfg \in [ login : {<<117>>}, password : {<<112>>},
                 prePlugin : {"none", "ok"}, postPlugin : {"none", "ok"},
                 patch : {"absent"}, prefix : SpecPrefixes,
                 target : SpecTargets ]
    /\ terminal = NIL
    /\ mws = <<>>
    /\ h = <<>>
    /\ reqs = [r \in Slots |-> IdleRequest]
    /\ logged = <<>>
    /\ opened = <<>>
    /\ seen = NoRoute
    /\ resolved = <<>>

IdentityNext ==
    \/ BuildProxy
    \/ LoadPre
    \/ BuildAuth
    \/ LoadPost
    \/ ComposeChain
    \/ ListenAndServe
    \/ \E r \in Slots : Receive(r, Headers, SpecPaths, ClientUsernames)
    \/ \E r \in Slots : PluginDelegates(r)
    \/ \E r \in Slots : PluginResponds(r)
    \/ \E r \in Slots : AuthServe(r)
    \/ \E r \in Slots : TerminalServe(r)
    \/ \E r \in Slots : Complete(r)

IdentitySpec == IdentityInit /\ [][IdentityNext]_vars

----------------------------------------------------------------------------
(* Properties *)

\* the slots that are not nil, in their declared order
Present(ms) == SelectSeq(ms, LAMBDA m : m # NIL)

IsPrefix(a, b) == Len(a) <= Len(b) /\ SubSeq(b, 1, Len(a)) = a

\* the stages that have observed request q, in the order they did
Stages(q) == [k \in 1..Len(q.trace) |-> q.trace[k].stage]

Range(f) == {f[k] : k \in DOMAIN f}

\* C1: a request given to the handler Chain returns traverses the present
\* middlewares in their declared order, the first declared first, and
\* reaches the terminal handler last: the stages that observed a request are
\* always a prefix of the present slots followed by the terminal handler,
\* and are all of them once the terminal handler has served it (which it
\* has when every middleware delegated).
C1_TraversalOrder ==
    pc = "serving" =>
      \A r \in Slots :
        LET q == reqs[r]
            expected == Present(mws) \o <<terminal>>
        IN /\ IsPrefix(Stages(q), expected)
           /\ q.outcome = "forwarded" => Stages(q) = expected
           /\ (q.st = "done" /\ q.outcome \notin {"responded", "aborted"})
                => q.outcome = "forwarded"

\* C1 witness: a list with a nil slot and two different present slots, and
\* a request that went through both and was served by the terminal handler
C1_Witness ==
    /\ pc = "serving"
    /\ NIL \in Range(mws)
    /\ Len(Present(mws)) >= 2
    /\ Present(mws)[1] # Present(mws)[2]
    /\ \E r \in Slots : /\ reqs[r].outcome = "forwarded"
                        /\ Len(reqs[r].trace) = Len(Present(mws)) + 1

\* C3: absent slots have no observable effect: the handler Chain builds
\* from a list with nil entries is the handler it builds from the list with
\* the nil entries removed (the same stages in the same order, hence the
\* same behaviour on every request), and no request is observed by a nil
\* stage.
C3_AbsentSlotsNoEffect ==
    pc \in {"listen", "serving"} =>
      /\ h = Chain(<<terminal>>, Present(mws))
      /\ \A r \in Slots : NIL \notin Range(Stages(reqs[r]))

\* C3 witness: a list with nil entries and present ones, composed, and a
\* request served through the handler up to the terminal handler
C3_Witness ==
    /\ pc = "serving"
    /\ NIL \in Range(mws)
    /\ Present(mws) # <<>>
    /\ Len(mws) = MaxSlots
    /\ \E r \in Slots : reqs[r].outcome = "forwarded"

\* the stages the configuration asks for, in the fixed order of main
ConfiguredStages ==
    SelectSeq(<<"pre", "auth", "post">>,
              LAMBDA m : \/ m = "pre" /\ cfg.prePlugin # "none"
                         \/ m = "auth" /\ cfg.login # <<>> /\ cfg.password # <<>>
                         \/ m = "post" /\ cfg.postPlugin # "none")

\* the index of stage s in the stages that observed q, 0 when it did not
StageIndex(q, s) ==
    IF s \in Range(Stages(q))
    THEN CHOOSE k \in 1..Len(q.trace) : q.trace[k].stage = s
    ELSE 0

\* C2: in the pipeline assembled at startup every request passes the stages
\* in the order pre plugin, authentication, post plugin, reverse proxy,
\* whichever of the three middlewares are configured: the stages that
\* observed a request are a prefix of the configured stages followed by the
\* proxy; the pre plugin has run before the credential check; with
\* authentication configured the post plugin and the proxy are entered only
\* with the identity the credential check published; and the proxy serves
\* only a request every configured stage has observed and delegated.
C2_FixedStageOrder ==
    pc = "serving" =>
      /\ terminal \in {"proxy", "patchedProxy"}
      /\ h = ConfiguredStages \o <<terminal>>
      /\ \A r \in Slots :
           LET q == reqs[r]
           IN /\ IsPrefix(Stages(q), ConfiguredStages \o <<terminal>>)
              /\ (StageIndex(q, "auth") > 0 /\ "pre" \in Range(ConfiguredStages))
                   => StageIndex(q, "pre") = StageIndex(q, "auth") - 1
              /\ \A k \in 1..Len(q.trace) :
                   (/\ q.trace[k].stage \in {"post", terminal}
                    /\ "auth" \in Range(ConfiguredStages))
                     => /\ StageIndex(q, "auth") \in 1..(k - 1)
                        /\ ContextValue(q.trace[k].ctx, "Username") = {cfg.login}
              /\ q.outcome = "forwarded"
                   => Stages(q) = ConfiguredStages \o <<terminal>>

\* C2 witness: all three middlewares configured and a request forwarded by
\* the proxy after passing the three of them
C2_Witness ==
    /\ pc = "serving"
    /\ Len(ConfiguredStages) = 3
    /\ \E r \in Slots : /\ reqs[r].outcome = "forwarded"
                        /\ Len(reqs[r].trace) = 4

\* C2 witness of the other case: only the post plugin configured
C2_WitnessPostOnly ==
    /\ pc = "serving"
    /\ ConfiguredStages = <<"post">>
    /\ \E r \in Slots : reqs[r].outcome = "forwarded"

----------------------------------------------------------------------------
(* Properties of the authentication stage *)

\* the tokens of q's Authorization header
Bits(q) == Split(q.hdr, SP)

\* the fields of the decoded second token (of a header of two tokens)
Fields(q) == Split(Base64Decode(Bits(q)[2]), COLON)

\* the decoded second token up to its first colon, and after it
BeforeColon(s) == Split(s, COLON)[1]

AfterColon(s) == SubSeq(s, Len(BeforeColon(s)) + 2, Len(s))

AuthEnabled == "auth" \in Range(h)

\* the configured login holds no colon
PlainLogin == COLON \notin Range(cfg.login)

AuthServed(q) == StageIndex(q, "auth") > 0

\* the authentication stage answered q with 401
RejectedByAuth(q) ==
    /\ q.st = "done" /\ q.by = "auth"
    /\ q.outcome = "responded" /\ q.code = StatusUnauthorized

\* the handler the authentication stage wraps: the stages of h after it
Wrapped ==
    LET at == CHOOSE k \in 1..Len(h) : h[k] = "auth"
    IN SubSeq(h, at + 1, Len(h))

\* the entries of the wrapped handler's first stage after the
\* authentication stage: its invocations by the authentication stage
WrappedEntries(q) ==
    { k \in (StageIndex(q, "auth") + 1)..Len(q.trace) :
        q.trace[k].stage = Head(Wrapped) }

\* the authentication stage has called the wrapped handler for q: the
\* request is at the wrapped handler or has been observed by it
DelegatedByAuth(q) ==
    /\ AuthServed(q)
    /\ \/ q.st = "running" /\ q.rest = Wrapped
       \/ WrappedEntries(q) # {}

\* what C4 asks of a request that carries the configured pair
AcceptedAs(q, login) ==
    /\ q.code # StatusUnauthorized
    /\ ~ q.challenge
    /\ DelegatedByAuth(q)
    /\ Cardinality(WrappedEntries(q)) <= 1
    /\ ContextValue(q.ctx, "Username") = {login}
    /\ q.st = "done" =>
         /\ Cardinality(WrappedEntries(q)) = 1
         /\ \A k \in WrappedEntries(q) :
              /\ k = StageIndex(q, "auth") + 1
              /\ ContextValue(q.trace[k].ctx, "Username") = {login}

CarriesConfiguredPair(q) ==
    /\ cfg.login # <<>> /\ cfg.password # <<>>
    /\ Len(Bits(q)) = 2
    /\ Bits(q)[2] = Base64Encode(cfg.login \o <<COLON>> \o cfg.password)

\* C4 as stated: with a non-empty pair (u, p) configured, a request whose
\* header is two tokens, the second base64("u:p"), is delegated by the
\* authentication stage exactly once, with identity u under "Username" in
\* the context the wrapped handler receives, and gets no 401.
C4_Original ==
    pc = "serving" =>
      \A r \in Slots :
        (AuthServed(reqs[r]) /\ CarriesConfiguredPair(reqs[r]))
          => AcceptedAs(reqs[r], cfg.login)

\* C4 amended: the same, for a configured login that holds no colon.
C4_ValidPairAccepted ==
    pc = "serving" =>
      \A r \in Slots :
        (/\ AuthServed(reqs[r]) /\ CarriesConfiguredPair(reqs[r])
         /\ PlainLogin)
          => AcceptedAs(reqs[r], cfg.login)

\* C4 witness: the pair ("u", "p"), the header "Basic " base64("u:p"), and
\* the request served by the handler the authentication stage wraps
C4_Witness ==
    /\ pc = "serving"
    /\ cfg.login = <<117>> /\ cfg.password = <<112>>
    /\ \E r \in Slots :
         /\ reqs[r].hdr = BasicScheme \o <<SP>> \o Base64Encode(<<117, COLON, 112>>)
         /\ reqs[r].st = "done"
         /\ WrappedEntries(reqs[r]) # {}

\* C5: the authentication stage rejects a request whose header has two
\* tokens and whose decoded payload is username ":" password (one colon)
\* exactly when the username differs from the configured login and the
\* password differs from the configured password; when exactly one of the
\* two matches, the request is accepted and delegated to the wrapped handler.
C5_RejectsOnlyBothMismatch ==
    pc = "serving" =>
      \A r \in Slots :
        LET q == reqs[r]
        IN (AuthServed(q) /\ Len(Bits(q)) = 2 /\ Len(Fields(q)) = 2) =>
             LET userDiffers == Fields(q)[1] # cfg.login
                 passDiffers == Fields(q)[2] # cfg.password
             IN /\ RejectedByAuth(q) <=> (userDiffers /\ passDiffers)
                /\ DelegatedByAuth(q) <=> ~ (userDiffers /\ passDiffers)
                /\ (userDiffers # passDiffers) => DelegatedByAuth(q)

\* C5 witness: the wrong username with the right password, delegated
C5_Witness ==
    /\ pc = "serving"
    /\ \E r \in Slots :
         LET q == reqs[r]
         IN /\ AuthServed(q) /\ Len(Bits(q)) = 2 /\ Len(Fields(q)) = 2
            /\ Fields(q)[1] # cfg.login /\ Fields(q)[2] = cfg.password
            /\ WrappedEntries(q) # {}

\* C5 witness of the other case: the right username with a wrong password
C5_WitnessWrongPassword ==
    /\ pc = "serving"
    /\ \E r \in Slots :
         LET q == reqs[r]
         IN /\ AuthServed(q) /\ Len(Bits(q)) = 2 /\ Len(Fields(q)) = 2
            /\ Fields(q)[1] = cfg.login /\ Fields(q)[2] # cfg.password
            /\ WrappedEntries(q) # {}

\* C6 as stated: a request the authentication stage rejects for a
\* credential mismatch gets status 401 with the challenge header
\* WWW-Authenticate, and reaches neither the post plugin nor the proxy
\* (stated for the configurations whose login holds no colon).
C6_MismatchChallenged ==
    pc = "serving" =>
      \A r \in Slots :
        LET q == reqs[r]
        IN (/\ PlainLogin
            /\ AuthServed(q) /\ q.st = "done" /\ q.by = "auth"
            /\ Len(Bits(q)) = 2 /\ Len(Fields(q)) >= 2
            /\ Fields(q)[1] # cfg.login /\ Fields(q)[2] # cfg.password)
             => /\ q.code = StatusUnauthorized
                /\ q.challenge
                /\ Range(Stages(q)) \cap {"post", terminal} = {}

\* C7: with authentication enabled, a request whose Authorization header is
\* missing or is not exactly two space-separated tokens gets 401 with the
\* challenge header, and the wrapped handler is never invoked for it.
C7_MalformedHeaderRejected ==
    pc = "serving" =>
      \A r \in Slots :
        LET q == reqs[r]
        IN (AuthServed(q) /\ Len(Bits(q)) # 2) =>
             /\ RejectedByAuth(q)
             /\ q.challenge
             /\ ~ DelegatedByAuth(q)
             /\ Len(q.trace) = StageIndex(q, "auth")
             /\ ContextValue(q.ctx, "Username") = {}

\* C7 witness: a header of three tokens whose second token is the encoding
\* of the configured pair, rejected
C7_Witness ==
    /\ pc = "serving"
    /\ \E r \in Slots :
         LET q == reqs[r]
         IN /\ AuthServed(q) /\ Len(Bits(q)) = 3
            /\ Bits(q)[2] = Base64Encode(cfg.login \o <<COLON>> \o cfg.password)
            /\ q.st = "done"

\* C7 witness of the other case: no Authorization header
C7_WitnessMissing ==
    /\ pc = "serving"
    /\ \E r \in Slots : AuthServed(reqs[r]) /\ reqs[r].hdr = <<>>

\* C8 as stated: with authentication enabled, a request whose header has two
\* tokens and whose decoded payload holds no colon gets 401 and the wrapped
\* handler is not invoked, whatever the payload (the configured login too)
\* (stated for the configurations whose login holds no colon).
C8_NoColonRejected ==
    pc = "serving" =>
      \A r \in Slots :
        LET q == reqs[r]
        IN (/\ PlainLogin
            /\ AuthServed(q) /\ Len(Bits(q)) = 2 /\ Len(Fields(q)) = 1) =>
             /\ RejectedByAuth(q)
             /\ ~ DelegatedByAuth(q)

\* C8, the half that fails by a panic: a payload without a colon that is
\* not the configured login gets 401
C8_NoColonOtherNameRejected ==
    pc = "serving" =>
      \A r \in Slots :
        LET q == reqs[r]
        IN (/\ PlainLogin
            /\ AuthServed(q) /\ Len(Bits(q)) = 2 /\ Len(Fields(q)) = 1
            /\ Fields(q)[1] # cfg.login)
             => RejectedByAuth(q)

\* C8, the half that fails by a delegation: a payload without a colon that
\* is the configured login is not delegated
C8_LoginAloneNotDelegated ==
    pc = "serving" =>
      \A r \in Slots :
        LET q == reqs[r]
        IN (/\ PlainLogin
            /\ AuthServed(q) /\ Len(Bits(q)) = 2 /\ Len(Fields(q)) = 1
            /\ Fields(q)[1] = cfg.login)
             => ~ DelegatedByAuth(q)

\* C9 as stated: the decoded payload is split on its first colon only, the
\* username the text before it and the password all that follows, so that a
\* request of two tokens whose payload holds a colon is rejected exactly
\* when the text before the first colon differs from the login and the
\* whole remainder differs from the password (stated for the configurations
\* whose login holds no colon).
C9_SplitOnFirstColon ==
    pc = "serving" =>
      \A r \in Slots :
        LET q == reqs[r]
            payload == Base64Decode(Bits(q)[2])
        IN (/\ PlainLogin
            /\ AuthServed(q) /\ Len(Bits(q)) = 2 /\ COLON \in Range(payload)) =>
             (RejectedByAuth(q) <=>
                (/\ BeforeColon(payload) # cfg.login
                 /\ AfterColon(payload) # cfg.password))

\* C10: BasicAuth returns nil exactly when the login or the password is
\* empty; the pipeline then holds no authentication stage: no request is
\* observed by one, none gets a 401 or a challenge, every request passes
\* from the pre plugin's delegation to the following stage, and no identity
\* is in any context a stage receives nor in the header the post plugin sets.
C10_AuthDisabledWhenEmpty ==
    /\ Len(mws) >= 2 =>
         (mws[2] = NIL <=> (cfg.login = <<>> \/ cfg.password = <<>>))
    /\ (pc = "serving" /\ (cfg.login = <<>> \/ cfg.password = <<>>)) =>
         /\ ~ AuthEnabled
         /\ \A r \in Slots :
              LET q == reqs[r]
              IN /\ ~ AuthServed(q)
                 /\ q.code # StatusUnauthorized /\ ~ q.challenge
                 /\ q.outcome # "aborted"
                 /\ q.ctx = {} /\ q.fwdUser = {}
                 /\ \A k \in 1..Len(q.trace) : q.trace[k].ctx = {}
                 /\ IsPrefix(Stages(q), SelectSeq(ConfiguredStages,
                                                  LAMBDA m : m # "auth")
                                        \o <<terminal>>)

\* C10 witness: a login with an empty password, and a request without
\* credentials forwarded after passing the post plugin
C10_Witness ==
    /\ pc = "serving"
    /\ cfg.login # <<>> /\ cfg.password = <<>>
    /\ \E r \in Slots :
         /\ reqs[r].hdr = <<>>
         /\ reqs[r].outcome = "forwarded"
         /\ "post" \in Range(Stages(reqs[r]))

----------------------------------------------------------------------------
(* The proxy's rewrite *)

\* request q was forwarded upstream by terminal handler term
ForwardedBy(q, term) ==
    q.st = "done" /\ q.outcome = "forwarded" /\ q.by = term

\* the URL sent upstream carries the target's scheme and host
ToTarget(q) ==
    /\ q.url.scheme = cfg.target.scheme
    /\ q.url.host = cfg.target.host
    /\ q.url.reqHost = cfg.target.host

\* C11: with the override proxy of patches/reverse_proxy.go in place, a
\* request whose path is the prefix followed by a remainder is forwarded
\* with the remainder as its path, the leading prefix removed once; a
\* request whose path does not begin with the prefix is forwarded with its
\* path as it came; scheme and host are the target's in both cases.
C11_OverrideStripsPrefixOnce ==
    \A r \in Slots :
      LET q == reqs[r]
      IN ForwardedBy(q, "patchedProxy") =>
           /\ IsPrefix(cfg.prefix, q.path) => q.path = cfg.prefix \o q.url.path
           /\ ~ IsPrefix(cfg.prefix, q.path) => q.url.path = q.path
           /\ ToTarget(q)

\* C11 witness: prefix "/p", path "/p/g" forwarded by the override as "/g"
C11_Witness ==
    \E r \in Slots :
      /\ ForwardedBy(reqs[r], "patchedProxy")
      /\ cfg.prefix = <<47, 112>>
      /\ reqs[r].path = <<47, 112, 47, 103>>
      /\ reqs[r].url.path = <<47, 103>>

\* C11 witness: prefix "/p", path "/g/p" forwarded by the override unchanged
C11_WitnessNoPrefix ==
    \E r \in Slots :
      /\ ForwardedBy(reqs[r], "patchedProxy")
      /\ cfg.prefix = <<47, 112>>
      /\ reqs[r].path = <<47, 103, 47, 112>>
      /\ reqs[r].url.path = reqs[r].path

\* C12: with no override in place the built-in proxy forwards every request
\* with the target's scheme and host and with the path as it came, whatever
\* the prefix is.
C12_DefaultKeepsPath ==
    \A r \in Slots :
      LET q == reqs[r]
      IN ForwardedBy(q, "proxy") =>
           /\ cfg.patch # "ok"
           /\ q.url.path = q.path
           /\ ToTarget(q)

\* C12 witness: no patch file, prefix "/p", path "/p/g" forwarded as "/p/g"
C12_Witness ==
    \E r \in Slots :
      /\ ForwardedBy(reqs[r], "proxy")
      /\ cfg.patch = "absent"
      /\ cfg.prefix = <<47, 112>>
      /\ reqs[r].path = <<47, 112, 47, 103>>
      /\ reqs[r].url.path = <<47, 112, 47, 103>>
      /\ reqs[r].url.scheme = cfg.target.scheme

\* C13 as stated: whenever the override proxy forwards a request whose path
\* begins with the non-empty prefix, the path sent upstream does not begin
\* with the prefix, also when the prefix occurs twice at the start.
C13_Original ==
    \A r \in Slots :
      LET q == reqs[r]
      IN (/\ ForwardedBy(q, "patchedProxy")
          /\ cfg.prefix # <<>> /\ IsPrefix(cfg.prefix, q.path))
           => ~ IsPrefix(cfg.prefix, q.url.path)

\* C13, amended: whenever the override proxy forwards a request whose path
\* begins with the non-empty prefix, the path sent upstream begins with the
\* prefix exactly when the inbound path begins with the prefix twice over:
\* one leading occurrence is removed and a second one is kept.
C13_OneOccurrenceRemoved ==
    \A r \in Slots :
      LET q == reqs[r]
      IN (/\ ForwardedBy(q, "patchedProxy")
          /\ cfg.prefix # <<>> /\ IsPrefix(cfg.prefix, q.path))
           => (IsPrefix(cfg.prefix, q.url.path)
                 <=> IsPrefix(cfg.prefix \o cfg.prefix, q.path))

\* C13 witness: prefix "/p", path "/p/p" forwarded by the override as "/p"
C13_Witness ==
    \E r \in Slots :
      /\ ForwardedBy(reqs[r], "patchedProxy")
      /\ cfg.prefix = <<47, 112>>
      /\ reqs[r].path = <<47, 112, 47, 112>>
      /\ reqs[r].url.path = <<47, 112>>

----------------------------------------------------------------------------
(* Resolving the extensions at startup *)

\* the positions of main after Proxy, after the pre plugin and after the
\* post plugin were resolved
AfterPost == {"chain", "listen", "serving"}

AfterPre == {"auth", "post"} \cup AfterPost

AfterProxy == {"pre"} \cup AfterPre

\* no handler was registered and no request was handled
Unserved ==
    /\ h = <<>>
    /\ \A r \in DOMAIN reqs : reqs[r] = IdleRequest

\* the file does not open or holds no symbol of the wanted name
FailsToLoad(file) == file \in {"openfail", "nosymbol"}

\* C14: LoadMiddlewarePlugin gives an absent middleware for the empty path
\* and loads nothing; for a path whose file does not open or lacks the
\* symbol "Middleware" the process ends fatally at startup: it registers no
\* handler, serves no request and never runs without the requested plugin.
C14_PluginLoadFailureFatal ==
    /\ cfg.prePlugin = "none" =>
         /\ "pre" \notin Range(opened)
         /\ pc \in AfterPre => mws[1] = NIL
    /\ cfg.postPlugin = "none" =>
         /\ "post" \notin Range(opened)
         /\ pc \in AfterPost => mws[3] = NIL
    /\ FailsToLoad(cfg.prePlugin) =>
         /\ pc \notin AfterPre /\ Unserved
         /\ "pre" \in Range(opened) => pc = "fatal"
    /\ FailsToLoad(cfg.postPlugin) =>
         /\ pc \notin AfterPost /\ Unserved
         /\ "post" \in Range(opened) => pc = "fatal"

\* C14 witness: the post plugin's file lacks the symbol, the patch and the
\* pre plugin were resolved, and the process has ended
C14_Witness ==
    /\ cfg.postPlugin = "nosymbol" /\ cfg.prePlugin = "ok"
    /\ pc = "fatal"
    /\ "post" \in Range(opened)
    /\ "Can't load plugin" \in Range(logged)

\* C14 witness: no plugin paths, and a request is forwarded
C14_WitnessEmpty ==
    /\ cfg.prePlugin = "none" /\ cfg.postPlugin = "none"
    /\ \E r \in Slots : reqs[r].outcome = "forwarded"

\* C15: a loaded symbol of another type than its slot expects is fatal at
\* startup, for "Middleware" of the pre and post plugins and for "Proxy" of
\* the patch: no handler is registered, no request is served, and the slot
\* is filled neither with the component nor with the default.
C15_ShapeMismatchFatal ==
    /\ cfg.patch = "badtype" =>
         /\ pc \in {"proxy", "fatal"} /\ terminal = NIL /\ Unserved
         /\ pc = "fatal" =>
              "Function signature do not match" \in Range(logged)
    /\ cfg.prePlugin = "badtype" =>
         /\ pc \notin AfterPre /\ Unserved
         /\ "pre" \notin Range(mws)
         /\ "pre" \in Range(opened) => pc = "fatal"
    /\ cfg.postPlugin = "badtype" =>
         /\ pc \notin AfterPost /\ Unserved
         /\ "post" \notin Range(mws)
         /\ "post" \in Range(opened) => pc = "fatal"

\* C15 witness: the patch's Proxy has another type and the process has ended
C15_Witness ==
    /\ cfg.patch = "badtype"
    /\ pc = "fatal"
    /\ opened = <<"reverse_proxy">>

\* C15 witness: the pre plugin's Middleware has another type and the process
\* has ended after the proxy was built
C15_WitnessPlugin ==
    /\ cfg.prePlugin = "badtype"
    /\ pc = "fatal"
    /\ terminal = "proxy"
    /\ "pre" \in Range(opened)

\* C16: with no file at the patch path LoadPatch gives nil without an error
\* and opens nothing; Proxy builds the built-in handler and startup goes on:
\* if the process ends at startup it is for a plugin.
C16_NoPatchFileDefaultProxy ==
    cfg.patch = "absent" =>
      /\ "reverse_proxy" \notin Range(opened)
      /\ "patch error" \notin Range(logged)
      /\ "Loading patched reverse_proxy module" \notin Range(logged)
      /\ pc # "proxy" => terminal = "proxy"
      /\ pc = "fatal" =>
           \/ "pre" \in Range(opened) /\ cfg.prePlugin # "ok"
           \/ "post" \in Range(opened) /\ cfg.postPlugin # "ok"
      /\ \A r \in Slots :
           reqs[r].outcome = "forwarded" => reqs[r].by = "proxy"

\* C16 witness: no patch file, and a request is forwarded by the built-in
\* proxy
C16_Witness ==
    /\ cfg.patch = "absent"
    /\ opened = <<>>
    /\ \E r \in Slots : ForwardedBy(reqs[r], "proxy")

\* C17: a patch file that does not open or lacks the symbol "Proxy" is
\* logged and is not fatal: Proxy builds the built-in handler and the
\* process goes on to serve unless a plugin stops it; the same failure of a
\* pre or post plugin path ends the process.
C17_PatchFailureLoggedNotFatal ==
    /\ (FailsToLoad(cfg.patch) /\ pc # "proxy") =>
         /\ "patch error" \in Range(logged)
         /\ terminal = "proxy"
         /\ pc = "fatal" =>
              \/ "pre" \in Range(opened) /\ cfg.prePlugin # "ok"
              \/ "post" \in Range(opened) /\ cfg.postPlugin # "ok"
         /\ \A r \in Slots :
              reqs[r].outcome = "forwarded" => reqs[r].by = "proxy"
    /\ (FailsToLoad(cfg.prePlugin) /\ pc \notin {"proxy", "pre"}) =>
         pc = "fatal"
    /\ (FailsToLoad(cfg.postPlugin)
          /\ pc \notin {"proxy", "pre", "auth", "post"}) => pc = "fatal"

\* C17 witness: the patch file lacks the symbol, the error was logged, and a
\* request is forwarded by the built-in proxy
C17_Witness ==
    /\ cfg.patch = "nosymbol"
    /\ "patch error" \in Range(logged)
    /\ \E r \in Slots : ForwardedBy(reqs[r], "proxy")

\* C17 witness: the same failure of the pre plugin has ended the process
C17_WitnessPlugin ==
    /\ cfg.patch = "openfail" /\ cfg.prePlugin = "openfail"
    /\ "patch error" \in Range(logged)
    /\ pc = "fatal"

----------------------------------------------------------------------------
(* Routing over a sequence of requests *)

\* C18: routing is the same for the same request wherever it comes in a
\* sequence: a request forwarded after others were served is sent to the
\* scheme, host and path the first forwarded request of the same path was
\* sent to; no earlier request changes where a later one goes.
C18_RoutingDeterministic ==
    \A r \in Slots :
      LET q == reqs[r]
      IN (/\ seen.known
          /\ q.st = "done" /\ q.outcome = "forwarded"
          /\ q.path = seen.path)
           => /\ q.url.scheme = seen.url.scheme
              /\ q.url.host = seen.url.host
              /\ q.url.path = seen.url.path

\* C18 witness: "/p/" was forwarded by the override as "/" and is over,
\* and a later request of the same path is forwarded as "/" again
C18_Witness ==
    /\ seen.known
    /\ seen.path = <<47, 112, 47>> /\ seen.url.path = <<47>>
    /\ \E r \in Slots :
         /\ ForwardedBy(reqs[r], "patchedProxy")
         /\ reqs[r].path = seen.path
         /\ reqs[r].url = seen.url

\* C18 witness: a request of another path was forwarded first, and "/p/"
\* is forwarded by the override as "/" after it
C18_WitnessAfterAnother ==
    /\ seen.known
    /\ seen.path = <<47, 103>>
    /\ \E r \in Slots :
         /\ ForwardedBy(reqs[r], "patchedProxy")
         /\ reqs[r].path = <<47, 112, 47>>
         /\ reqs[r].url.path = <<47>>

----------------------------------------------------------------------------
(* The outcomes of the authentication stage *)

\* C19 as stated: every request the authentication stage has served was
\* either answered by it with 401 and not delegated, or delegated to the
\* wrapped handler and not answered by it; no Authorization header makes
\* the stage end otherwise, such as by a runtime error that aborts the
\* request (stated for the configurations whose login holds no colon).
C19_AuthStageOutcomes ==
    pc = "serving" =>
      \A r \in Slots :
        LET q == reqs[r]
        IN (PlainLogin /\ AuthServed(q)) =>
             /\ q.outcome # "aborted"
             /\ \/ RejectedByAuth(q) /\ ~ DelegatedByAuth(q)
                \/ DelegatedByAuth(q) /\ q.by # "auth"

----------------------------------------------------------------------------
(* The context of requests in flight together *)

\* the contexts request q has carried: the one it holds and those its
\* stages were entered with
Contexts(q) == {q.ctx} \cup { q.trace[k].ctx : k \in 1..Len(q.trace) }

\* request q carries credentials the configured pair accepts
OwnCredentials(q) ==
    /\ Len(Bits(q)) = 2
    /\ \/ Fields(q)[1] = cfg.login
       \/ Len(Fields(q)) >= 2 /\ Fields(q)[2] = cfg.password

\* C20: with requests in flight together, in any interleaving of their
\* stages, an identity is in a request's context only after the
\* authentication stage has served that request, on credentials that
\* request carried, and only its later stages are entered with it; a request
\* the authentication stage has not served or has rejected holds none,
\* whatever was published for the others.
C20_IdentityPerRequest ==
    \A r \in DOMAIN reqs :
      LET q == reqs[r]
      IN /\ ContextValue(q.ctx, "Username") # {} =>
              /\ AuthServed(q) /\ ~ RejectedByAuth(q)
              /\ OwnCredentials(q)
              /\ ContextValue(q.ctx, "Username") = {cfg.login}
         /\ \A k \in 1..Len(q.trace) :
              ContextValue(q.trace[k].ctx, "Username") # {} =>
                /\ AuthServed(q)
                /\ k > StageIndex(q, "auth")
         /\ (~ AuthServed(q) \/ RejectedByAuth(q)) =>
              \A c \in Contexts(q) : ContextValue(c, "Username") = {}

\* C20 witness: one request was accepted and its post plugin was entered
\* with the identity, while another, without credentials, has passed the
\* pre plugin and holds none
C20_Witness ==
    \E r1, r2 \in DOMAIN reqs :
      /\ r1 # r2
      /\ "post" \in Range(Stages(reqs[r1]))
      /\ ContextValue(reqs[r1].ctx, "Username") = {cfg.login}
      /\ reqs[r2].st = "running" /\ reqs[r2].hdr = <<>>
      /\ Stages(reqs[r2]) = <<"pre">>
      /\ reqs[r2].ctx = {}

----------------------------------------------------------------------------
(* When the extensions are resolved *)

\* the extension slots: the proxy patch, the pre plugin and the post plugin
ExtensionSlots == {"reverse_proxy", "pre", "post"}

\* how many times name is in the sequence calls
Times(calls, name) == Cardinality({ k \in DOMAIN calls : calls[k] = name })

\* main has passed the composition of the chain
Composed == pc \in {"listen", "serving"}

\* no slot was resolved, and no file opened, more than once
ResolvedAtMostOnce ==
    /\ Range(resolved) \subseteq ExtensionSlots
    /\ \A name \in ExtensionSlots :
         /\ Times(resolved, name) <= 1
         /\ Times(opened, name) <= 1
    /\ (\E r \in DOMAIN reqs : reqs[r] # IdleRequest) => Composed

\* C21: every resolution (LoadPatch for the proxy patch, LoadPlugin for the
\* pre and post plugins) happens during startup, before serving begins: no
\* step taken once the chain is composed, and so no step of handling a
\* request, resolves or opens anything, and each of the three slots is
\* resolved at most once in a run.
C21_ResolutionOnlyAtStartup ==
    /\ [] ResolvedAtMostOnce
    /\ [][ Composed => (resolved' = resolved /\ opened' = opened) ]_vars

\* C21 witness: the patch and both plugins were resolved once, in this
\* order, and a request has been forwarded through all stages
C21_Witness ==
    /\ pc = "serving"
    /\ resolved = <<"reverse_proxy", "pre", "post">>
    /\ opened = resolved
    /\ \E r \in Slots :
         /\ reqs[r].outcome = "forwarded"
         /\ {"pre", "post"} \subseteq Range(Stages(reqs[r]))

----------------------------------------------------------------------------
(* The identity that is published and forwarded *)

\* the post plugin has served request q and called the next handler
PassedPost(q) ==
    /\ StageIndex(q, "post") > 0
    /\ StageIndex(q, "post") < Len(q.trace) \/ q.st = "running"

\* C22: whenever the authentication stage delegates, the identity under
\* "Username" is the configured login and never the username the request
\* supplied: every later stage is entered with the configured login, also
\* for a request accepted on its password alone, and once the example post
\* plugin has served the request its header Username is the configured
\* login, whatever Username header the client sent.
C22_IdentityIsConfiguredLogin ==
    pc = "serving" =>
      \A r \in Slots :
        LET q == reqs[r]
        IN DelegatedByAuth(q) =>
             /\ ContextValue(q.ctx, "Username") = {cfg.login}
             /\ \A k \in (StageIndex(q, "auth") + 1)..Len(q.trace) :
                  ContextValue(q.trace[k].ctx, "Username") = {cfg.login}
             /\ PassedPost(q) => q.fwdUser = {cfg.login}

\* C22 witness: login "u"; a request with the payload "p:p" and the header
\* Username "p" was accepted on its password, and is forwarded after the
\* post plugin with the header Username "u"
C22_Witness ==
    \E r \in Slots :
      LET q == reqs[r]
      IN /\ cfg.login = <<117>>
         /\ Len(Bits(q)) = 2 /\ Fields(q) = << <<112>>, <<112>> >>
         /\ q.sentUser = {<<112>>}
         /\ q.outcome = "forwarded"
         /\ StageIndex(q, "post") > 0
         /\ q.fwdUser = {<<117>>}

====
